---- MODULE Spec2Model ----
(***************************************************************************)
(* Model of httpie-rust (src/src/main.rs): a command-line HTTP client.     *)
(* Strings are sequences of one-character strings, so that splitting,      *)
(* URL parsing and media-type parsing are computed character by character. *)
(***************************************************************************)
EXTENDS Integers, Sequences, FiniteSets, TLC

VARIABLES
    pc,       \* position of main / print_response
    argv,     \* process arguments: [subcmd, url, body] (raw tokens)
    opts,     \* Opts produced by Opts::parse(), or None
    sent,     \* requests handed to RequestBuilder::send(), in order
    res,      \* the Response received, or None
    mime,     \* print_response's local `mime`: NotYet, None or [some |-> Mime]
    text,     \* print_response's local `body`: None or [some |-> text read]
    stdout,   \* what has been printed to standard output, in order
    exit,     \* "running", "ok", "usage", "error" or "panic"
    stages,   \* stages entered so far: validate, dispatch, render
    fn_in,    \* input of the function under test (function specifications)
    fn_out    \* its result, or None before the call

vars == <<pc, argv, opts, sent, res, mime, text, stdout, exit, stages, fn_in, fn_out>>

pipeVars == <<pc, argv, opts, sent, res, mime, text, stdout, exit, stages>>

None == [none |-> TRUE]

NotYet == [notyet |-> TRUE]

(***************************************************************************)
(* Bounds                                                                  *)
(***************************************************************************)
MaxTokLen == 4

MaxUrlLen == 6

MaxPairs == 2

(***************************************************************************)
(* Generic string helpers                                                  *)
(***************************************************************************)
Range(s) == {s[i] : i \in 1..Len(s)}

SeqsUpTo(A, n) == UNION {[1..k -> A] : k \in 0..n}

IsPrefix(p, s) == Len(p) <= Len(s) /\ SubSeq(s, 1, Len(p)) = p

\* Index of the first occurrence of c in s, or Len(s)+1 when there is none.
RECURSIVE IndexFrom(_, _, _)
IndexFrom(s, c, i) ==
    IF i > Len(s) THEN Len(s) + 1
    ELSE IF s[i] = c THEN i
    ELSE IndexFrom(s, c, i + 1)

\* str::split(pat): the segments of s between the occurrences of the
\* one-character pattern c; a string with n occurrences has n+1 segments.
RECURSIVE StrSplit(_, _)
StrSplit(s, c) ==
    LET i == IndexFrom(s, c, 1) IN
    IF i > Len(s) THEN <<s>>
    ELSE <<SubSeq(s, 1, i - 1)>> \o StrSplit(SubSeq(s, i + 1, Len(s)), c)

(***************************************************************************)
(* KvPair::from_str and parse_kv_pair                                      *)
(***************************************************************************)
Ok(v) == [ok |-> TRUE, val |-> v]

Err(e) == [ok |-> FALSE, err |-> e]

KvPair(k, v) == [key |-> k, value |-> v]

\* Mutant: a missing second segment defaults to the empty value.
KvFromStrDefaultValue(s) ==
    LET split == StrSplit(s, "=") IN
    Ok(KvPair(split[1], IF Len(split) < 2 THEN <<>> ELSE split[2]))

\* Mutant: split once, the remainder is the value (splitn(2, "=")).
KvFromStrSplitOnce(s) ==
    LET i == IndexFrom(s, "=", 1) IN
    IF i > Len(s) THEN Err(<<"Failed to parse", s>>)
    ELSE Ok(KvPair(SubSeq(s, 1, i - 1), SubSeq(s, i + 1, Len(s))))

\* Mutant: the two segments are taken in the opposite order.
KvFromStrSwapped(s) ==
    LET split == StrSplit(s, "=") IN
    IF Len(split) < 2 THEN Err(<<"Failed to parse", s>>)
    ELSE Ok(KvPair(split[2], split[1]))

\* split.next() twice: each ok_or_else(err)? fails when the iterator is
\* exhausted; the remaining segments are never read.
KvPairFromStr(s) ==
    LET split == StrSplit(s, "=") IN
    IF Len(split) < 1 THEN Err(<<"Failed to parse", s>>)
    ELSE IF Len(split) < 2 THEN Err(<<"Failed to parse", s>>)
    ELSE Ok(KvPair(split[1], split[2]))

parse_kv_pair(s) == KvPairFromStr(s)

KvAlphabet == {"a", "1", "="}

KvTokens == SeqsUpTo(KvAlphabet, MaxTokLen)

(***************************************************************************)
(* Url::parse and parse_url.  Url::parse follows the URL Standard; the     *)
(* model covers inputs written with letters, ':', '/' and '.', without     *)
(* userinfo, query, fragment, digits or dot path segments.  The Url it     *)
(* returns is represented by its serialization.                            *)
(***************************************************************************)
UpperToLower ==
    [c \in {"A", "B", "C", "H", "P", "S", "T", "W"} |->
        CASE c = "A" -> "a" [] c = "B" -> "b" [] c = "C" -> "c"
          [] c = "H" -> "h" [] c = "P" -> "p" [] c = "S" -> "s"
          [] c = "T" -> "t" [] c = "W" -> "w"]

LowerChars == {"a", "b", "c", "h", "p", "s", "t", "w", "x", "y", "z"}

IsAlpha(c) == c \in LowerChars \/ c \in DOMAIN UpperToLower

ToLowerChar(c) == IF c \in DOMAIN UpperToLower THEN UpperToLower[c] ELSE c

ToLower(s) == [i \in 1..Len(s) |-> ToLowerChar(s[i])]

\* The schemes the URL Standard calls special (file, which has its own
\* parser state, is left out).
SpecialSchemes ==
    { <<"h","t","t","p">>, <<"h","t","t","p","s">>, <<"w","s">>,
      <<"w","s","s">>, <<"f","t","p">> }

RECURSIVE SkipSlashes(_)
SkipSlashes(s) ==
    IF s # <<>> /\ s[1] = "/" THEN SkipSlashes(Tail(s)) ELSE s

\* host [":" port] of an authority; the path that follows is kept as written.
UrlAfterAuthority(scheme, special, r) ==
    LET pathAt    == IndexFrom(r, "/", 1)
        authority == SubSeq(r, 1, pathAt - 1)
        path      == SubSeq(r, pathAt, Len(r))
        colon     == IndexFrom(authority, ":", 1)
        host      == SubSeq(authority, 1, colon - 1)
        hasPort   == colon <= Len(authority)
        port      == SubSeq(authority, colon + 1, Len(authority))
    IN  IF host = <<>> /\ (special \/ hasPort) THEN Err("EmptyHost")
        ELSE IF \E i \in 1..Len(host) : ~(IsAlpha(host[i]) \/ host[i] = ".")
             THEN Err("InvalidDomainCharacter")
        ELSE IF port # <<>> THEN Err("InvalidPort")
        ELSE Ok(scheme \o <<":", "/", "/">>
                \o (IF special THEN ToLower(host) ELSE host)
                \o (IF special /\ path = <<>> THEN <<"/">> ELSE path))

UrlParse(s) ==
    LET colon == IndexFrom(s, ":", 1) IN
    IF colon > Len(s) \/ colon = 1
       \/ \E i \in 1..(colon - 1) : ~IsAlpha(s[i])
    THEN Err("RelativeUrlWithoutBase")
    ELSE
        LET scheme == ToLower(SubSeq(s, 1, colon - 1))
            rest   == SubSeq(s, colon + 1, Len(s))
        IN  IF scheme \in SpecialSchemes
            THEN UrlAfterAuthority(scheme, TRUE, SkipSlashes(rest))
            ELSE IF Len(rest) >= 2 /\ rest[1] = "/" /\ rest[2] = "/"
            THEN UrlAfterAuthority(scheme, FALSE, SubSeq(rest, 3, Len(rest)))
            ELSE Ok(scheme \o <<":">> \o rest)

\* Mutant: the parsed Url's serialization is returned instead of the input.
ParseUrlNormalized(url) == UrlParse(url)

\* Url::parse(url)?; Ok(url.into())
parse_url(url) ==
    LET parsed == UrlParse(url) IN
    IF ~parsed.ok THEN parsed ELSE Ok(url)

UrlAlphabet == {"w", "s", "W", ":", "/"}

UrlTokens == SeqsUpTo(UrlAlphabet, MaxUrlLen)

(***************************************************************************)
(* Opts::parse(): the clap derive parser.  argv is the subcommand word and *)
(* the positional tokens after it; the first positional is validated by    *)
(* parse_url, every further one by parse_kv_pair.  --help and --version    *)
(* print to standard output and exit 0; every other failure is a usage     *)
(* error on standard error with exit code 2.  The -v count is not read by  *)
(* any later code and is left out.                                         *)
(***************************************************************************)
WriteSubCommands == {"post", "put", "patch"}

SubCommands == {"get"} \cup WriteSubCommands

InfoFlags == {"--help", "--version"}

RECURSIVE ParseBody(_)
ParseBody(tokens) ==
    IF tokens = <<>> THEN Ok(<<>>)
    ELSE LET first == parse_kv_pair(Head(tokens)) IN
         IF ~first.ok THEN Err("InvalidPair")
         ELSE LET rest == ParseBody(Tail(tokens)) IN
              IF ~rest.ok THEN rest ELSE Ok(<<first.val>> \o rest.val)

OptsParse(av) ==
    IF av.subcmd \in InfoFlags THEN Err("DisplayInfo")
    ELSE IF av.subcmd \notin SubCommands THEN Err("UnknownSubcommand")
    ELSE IF av.args = <<>> THEN Err("MissingUrl")
    ELSE IF av.subcmd = "get" /\ Len(av.args) > 1 THEN Err("UnexpectedArgument")
    ELSE LET url  == parse_url(av.args[1])
             body == ParseBody(Tail(av.args))
         IN  IF ~url.ok THEN Err("InvalidUrl")
             ELSE IF ~body.ok THEN body
             ELSE Ok([subcmd |-> av.subcmd, url |-> url.val, body |-> body.val])

(***************************************************************************)
(* Request bodies: HashMap<&String, &String> filled by insert              *)
(***************************************************************************)
EmptyMap == [k \in {} |-> <<>>]

\* Mutant: entry(k).or_insert(v), the first value of a key is kept.
HashMapInsertIfAbsent(m, k, v) ==
    IF k \in DOMAIN m THEN m
    ELSE [x \in DOMAIN m \cup {k} |-> IF x = k THEN v ELSE m[x]]

HashMapInsert(m, k, v) ==
    [x \in DOMAIN m \cup {k} |-> IF x = k THEN v ELSE m[x]]

\* for arg in args.body.iter() { body.insert(&arg.key, &arg.value); }
RECURSIVE BuildBody(_, _)
BuildBody(m, pairs) ==
    IF pairs = <<>> THEN m
    ELSE BuildBody(HashMapInsert(m, Head(pairs).key, Head(pairs).value), Tail(pairs))

(***************************************************************************)
(* Responses.  Header values and body texts are sequences of lexemes.      *)
(* `headers` is the response's HeaderMap as a sequence of entries          *)
(* [name, values]; iterating it yields each name once per value.           *)
(***************************************************************************)
RECURSIVE HeaderIter(_)
HeaderIter(h) ==
    IF h = <<>> THEN <<>>
    ELSE [i \in 1..Len(Head(h).values) |->
            [name |-> Head(h).name, value |-> Head(h).values[i]]]
         \o HeaderIter(Tail(h))

\* HeaderMap::get(name): the first value of the entry with that name.
HeaderGet(h, name) ==
    IF \E i \in 1..Len(h) : h[i].name = name
    THEN [some |-> h[CHOOSE i \in 1..Len(h) : h[i].name = name].values[1]]
    ELSE None

\* HeaderValue::to_str(): fails unless every byte is visible ASCII.
NonAsciiLexemes == {"<0xE9>"}

HeaderToStr(v) ==
    IF \E i \in 1..Len(v) : v[i] \in NonAsciiLexemes THEN Err("ToStrError") ELSE Ok(v)

\* <Mime as FromStr>: type "/" subtype (";" [" "] name "=" value)*, with
\* type, subtype, parameter names and the charset value lower-cased.
LexLower ==
    [w \in {"Application", "JSON", "UTF-8"} |->
        CASE w = "Application" -> "application" [] w = "JSON" -> "json"
          [] w = "UTF-8" -> "utf-8"]

LowerLex(w) == IF w \in DOMAIN LexLower THEN LexLower[w] ELSE w

MimeTokens ==
    {"application", "Application", "text", "json", "JSON", "html", "css",
     "javascript", "plain", "charset", "utf-8", "UTF-8", "iso-8859-1"}

RECURSIVE MimeParams(_)
MimeParams(r) ==
    IF r = <<>> THEN Ok(<<>>)
    ELSE IF r[1] # ";" THEN Err("InvalidParams")
    ELSE LET p == IF Len(r) >= 2 /\ r[2] = " " THEN SubSeq(r, 3, Len(r)) ELSE Tail(r) IN
         IF Len(p) < 3 \/ p[1] \notin MimeTokens \/ p[2] # "=" \/ p[3] \notin MimeTokens
         THEN Err("InvalidParams")
         ELSE LET name == LowerLex(p[1])
                  val  == IF name = "charset" THEN LowerLex(p[3]) ELSE p[3]
                  rest == MimeParams(SubSeq(p, 4, Len(p)))
              IN  IF ~rest.ok THEN rest ELSE Ok(<<<<name, val>>>> \o rest.val)

MimeFromStr(s) ==
    IF Len(s) < 3 \/ s[1] \notin MimeTokens \/ s[2] # "/" \/ s[3] \notin MimeTokens
    THEN Err("FromStrError")
    ELSE LET params == MimeParams(SubSeq(s, 4, Len(s))) IN
         IF ~params.ok THEN Err("FromStrError")
         ELSE Ok([type |-> LowerLex(s[1]), subtype |-> LowerLex(s[3]),
                  params |-> params.val])

Mime(t, s, p) == [type |-> t, subtype |-> s, params |-> p]

Utf8 == << <<"charset", "utf-8">> >>

APPLICATION_JSON == Mime("application", "json", <<>>)

TEXT_HTML == Mime("text", "html", <<>>)

TEXT_HTML_UTF_8 == Mime("text", "html", Utf8)

TEXT_CSS == Mime("text", "css", <<>>)

TEXT_CSS_UTF_8 == Mime("text", "css", Utf8)

APPLICATION_JAVASCRIPT == Mime("application", "javascript", <<>>)

\* headers().get(CONTENT_TYPE).map(|v| v.to_str().unwrap().parse().unwrap()):
\* Ok(None), Ok([some |-> Mime]), or Err when one of the unwraps panics.
parse_mime(r) ==
    LET v == HeaderGet(r.headers, "content-type") IN
    IF v = None THEN Ok(None)
    ELSE LET s == HeaderToStr(v.some) IN
         IF ~s.ok THEN Err("panic")
         ELSE LET m == MimeFromStr(s.val) IN
              IF ~m.ok THEN Err("panic") ELSE Ok([some |-> m.val])

\* The match of print_body: the extension handed to print_syntect, or None
\* for the println! arm.
BodyExtension(m) ==
    IF m = None THEN None
    ELSE IF m.some = APPLICATION_JSON THEN [some |-> "json"]
    ELSE IF m.some = TEXT_HTML \/ m.some = TEXT_HTML_UTF_8 THEN [some |-> "html"]
    ELSE IF m.some = TEXT_CSS \/ m.some = TEXT_CSS_UTF_8 THEN [some |-> "css"]
    ELSE IF m.some = APPLICATION_JAVASCRIPT THEN [some |-> "javascript"]
    ELSE None

\* SyntaxSet::load_defaults_newlines().find_syntax_by_extension(ext): the
\* default syntaxes are looked up by file extension; JavaScript is
\* registered under "js" and "htc", not under "javascript".
DefaultSyntaxByExtension ==
    [e \in {"json", "html", "htm", "css", "js", "htc"} |->
        CASE e = "json" -> "JSON"
          [] e \in {"html", "htm"} -> "HTML"
          [] e = "css" -> "CSS"
          [] e \in {"js", "htc"} -> "JavaScript"]

FindSyntaxByExtension(ext) ==
    IF ext \in DOMAIN DefaultSyntaxByExtension
    THEN [some |-> DefaultSyntaxByExtension[ext]] ELSE None

\* print_syntect: Err when find_syntax_by_extension(ext).unwrap() panics,
\* otherwise the escaped, highlighted text that is printed.
print_syntect(content, ext) ==
    LET syntax == FindSyntaxByExtension(ext) IN
    IF syntax = None THEN Err("panic")
    ELSE Ok(<<[item |-> "highlighted", syntax |-> syntax.some, text |-> content]>>)

StatusBlock(r) ==
    << [item |-> "[status]"],
       [item |-> "status_line", version |-> r.version, status |-> r.status] >>

Reverse(s) == [i \in 1..Len(s) |-> s[Len(s) + 1 - i]]

\* Mutant: the header lines are printed in the opposite order.
HeadersBlockReversed(r) ==
    << [item |-> "[headers]"] >>
    \o [i \in 1..Len(HeaderIter(r.headers)) |->
          [item |-> "header", name |-> Reverse(HeaderIter(r.headers))[i].name,
           value |-> Reverse(HeaderIter(r.headers))[i].value]]

HeadersBlock(r) ==
    << [item |-> "[headers]"] >>
    \o [i \in 1..Len(HeaderIter(r.headers)) |->
          [item |-> "header", name |-> HeaderIter(r.headers)[i].name,
           value |-> HeaderIter(r.headers)[i].value]]

\* print_body: the marker, then the arm the match selects.
BodyOutput(m, body) ==
    LET ext == BodyExtension(m) IN
    IF ext = None THEN Ok(<<[item |-> "[body]"], [item |-> "raw", text |-> body]>>)
    ELSE LET h == print_syntect(body, ext.some) IN
         IF ~h.ok THEN [ok |-> FALSE, err |-> "panic", printed |-> <<[item |-> "[body]"]>>]
         ELSE Ok(<<[item |-> "[body]"]>> \o h.val)

(***************************************************************************)
(* Inputs of a run                                                         *)
(***************************************************************************)
UrlArgs ==
    { <<"a","b","c">>,
      <<"h","t","t","p",":","/","/","a","b","c",".","x","y","z">>,
      <<"H","T","T","P",":","/","/","a","b","c",".","x","y","z">> }

KvArgs == { <<"a","=","1">>, <<"a","=">>, <<"=","1">>, <<"a">> }

Argvs ==
    [subcmd : SubCommands \cup {"delete"},
     args : SeqsUpTo(UrlArgs \cup KvArgs, 1 + MaxPairs)]
    \cup [subcmd : InfoFlags, args : {<<>>}]

ContentType(v) == [name |-> "content-type", values |-> <<v>>]

Server == [name |-> "server", values |-> << <<"nginx">> >>]

Json == <<"application", "/", "json">>

Plain == <<"text", "/", "plain">>

ContentTypeValues ==
    { Json,
      <<"text", "/", "html">>,
      <<"text", "/", "html", ";", " ", "charset", "=", "utf-8">>,
      <<"text", "/", "css">>,
      <<"text", "/", "css", ";", " ", "charset", "=", "utf-8">>,
      <<"application", "/", "javascript">>,
      Plain,
      <<"application", "/", "json", ";", " ", "charset", "=", "utf-8">>,
      <<"text", "/", "html", ";", " ", "charset", "=", "iso-8859-1">>,
      <<"Application", "/", "JSON">>,
      <<"garbage">>,
      <<"<0xE9>">> }

HeaderMaps ==
    { <<>>, <<Server>>, <<ContentType(Json), Server>>,
      <<[name |-> "content-type", values |-> <<Plain, Json>>]>> }
    \cup { <<Server, ContentType(v)>> : v \in ContentTypeValues }

Responses ==
    [version : {"HTTP/1.1"}, status : {"200 OK", "404 Not Found"}, headers : HeaderMaps]

BodyTexts == { <<"{\"x\":1}">>, <<"<p>", "x", "</p>">> }

(***************************************************************************)
(* main and print_response                                                 *)
(***************************************************************************)
Init ==
    /\ pc = "start" /\ argv \in Argvs /\ opts = None /\ sent = <<>> /\ res = None
    /\ mime = NotYet /\ text = None /\ stdout = <<>> /\ exit = "running"
    /\ stages = <<>> /\ fn_in = <<>> /\ fn_out = None

Abort(cause) == pc' = "done" /\ exit' = cause

\* let opts: Opts = Opts::parse();
ParseOpts ==
    /\ pc = "start"
    /\ stages' = Append(stages, "validate")
    /\ LET r == OptsParse(argv) IN
       IF r.ok THEN
            /\ opts' = r.val /\ pc' = "parsed"
            /\ UNCHANGED <<stdout, exit>>
       ELSE IF r.err = "DisplayInfo" THEN
            /\ stdout' = Append(stdout, [item |-> argv.subcmd])
            /\ Abort("info")
            /\ UNCHANGED opts
       ELSE /\ Abort("usage")
            /\ UNCHANGED <<opts, stdout>>
    /\ UNCHANGED <<argv, sent, res, mime, text, fn_in, fn_out>>

\* The two header values are constants that always parse;
\* Client::builder().default_headers(headers).build()? succeeds ...
BuildClientOk ==
    /\ pc = "parsed"
    /\ pc' = "client"
    /\ UNCHANGED <<argv, opts, sent, res, mime, text, stdout, exit, stages, fn_in, fn_out>>

\* ... or fails, and main returns the error.
BuildClientErr ==
    /\ pc = "parsed"
    /\ Abort("client_error")
    /\ UNCHANGED <<argv, opts, sent, res, mime, text, stdout, stages, fn_in, fn_out>>

Request(method, url, body) == [method |-> method, url |-> url, body |-> body]

Send(req) ==
    /\ sent' = Append(sent, req)
    /\ stages' = Append(stages, "dispatch")
    /\ pc' = "await_send"
    /\ UNCHANGED <<argv, opts, res, mime, text, stdout, exit, fn_in, fn_out>>

\* HttpRequest::get: client.get(&args.url).send()
Get ==
    /\ pc = "client" /\ opts.subcmd = "get"
    /\ Send(Request("GET", opts.url, None))

\* HttpRequest::post: client.post(&args.url).json(&body).send()
Post ==
    /\ pc = "client" /\ opts.subcmd = "post"
    /\ Send(Request("POST", opts.url, [json |-> BuildBody(EmptyMap, opts.body)]))

\* HttpRequest::put
Put ==
    /\ pc = "client" /\ opts.subcmd = "put"
    /\ Send(Request("PUT", opts.url, [json |-> BuildBody(EmptyMap, opts.body)]))

\* HttpRequest::patch
Patch ==
    /\ pc = "client" /\ opts.subcmd = "patch"
    /\ Send(Request("PATCH", opts.url, [json |-> BuildBody(EmptyMap, opts.body)]))

\* Mutant: a failed send is retried.
SendErrRetry ==
    /\ pc = "await_send"
    /\ pc' = "client"
    /\ UNCHANGED <<argv, opts, sent, res, mime, text, stdout, exit, stages, fn_in, fn_out>>

\* Mutant: the error of a failed send is dropped and main returns Ok.
SendErrSwallowed ==
    /\ pc = "await_send"
    /\ Abort("ok")
    /\ UNCHANGED <<argv, opts, sent, res, mime, text, stdout, stages, fn_in, fn_out>>

\* send().await? fails: network, DNS, TLS, timeout or builder error.
SendErr ==
    /\ pc = "await_send"
    /\ Abort("request_error")
    /\ UNCHANGED <<argv, opts, sent, res, mime, text, stdout, stages, fn_in, fn_out>>

\* send().await? yields a response (of any status); print_response starts.
SendOk ==
    /\ pc = "await_send"
    /\ \E r \in Responses : res' = r
    /\ stages' = Append(stages, "render")
    /\ pc' = "print_status"
    /\ UNCHANGED <<argv, opts, sent, mime, text, stdout, exit, fn_in, fn_out>>

\* Mutant: print_response resolves the Content-Type before printing anything.
ParseMimeFirst ==
    /\ pc = "print_status"
    /\ IF parse_mime(res).ok
       THEN stdout' = stdout \o StatusBlock(res) /\ pc' = "print_headers" /\ UNCHANGED exit
       ELSE Abort("mime_panic") /\ UNCHANGED stdout
    /\ UNCHANGED <<argv, opts, sent, res, mime, text, stages, fn_in, fn_out>>

\* print_status(&res)
PrintStatus ==
    /\ pc = "print_status"
    /\ stdout' = stdout \o StatusBlock(res)
    /\ pc' = "print_headers"
    /\ UNCHANGED <<argv, opts, sent, res, mime, text, exit, stages, fn_in, fn_out>>

\* print_headers(&res)
PrintHeaders ==
    /\ pc = "print_headers"
    /\ stdout' = stdout \o HeadersBlock(res)
    /\ pc' = "parse_mime"
    /\ UNCHANGED <<argv, opts, sent, res, mime, text, exit, stages, fn_in, fn_out>>

\* let mime = parse_mime(&res);
ParseMime ==
    /\ pc = "parse_mime"
    /\ LET m == parse_mime(res) IN
       IF m.ok THEN mime' = m.val /\ pc' = "read_body" /\ UNCHANGED exit
       ELSE Abort("mime_panic") /\ UNCHANGED mime
    /\ UNCHANGED <<argv, opts, sent, res, text, stdout, stages, fn_in, fn_out>>

\* let body = res.text().await?;  the body is read in full
ReadBodyOk ==
    /\ pc = "read_body"
    /\ \E b \in BodyTexts : text' = [some |-> b]
    /\ pc' = "print_body"
    /\ UNCHANGED <<argv, opts, sent, res, mime, stdout, exit, stages, fn_in, fn_out>>

\* ... or the read fails and print_response returns the error.
ReadBodyErr ==
    /\ pc = "read_body"
    /\ Abort("body_error")
    /\ UNCHANGED <<argv, opts, sent, res, mime, text, stdout, stages, fn_in, fn_out>>

\* print_body(mime, &body); Ok(())  and main returns Ok.
PrintBody ==
    /\ pc = "print_body"
    /\ LET out == BodyOutput(mime, text.some) IN
       IF out.ok THEN stdout' = stdout \o out.val /\ Abort("ok")
       ELSE stdout' = stdout \o out.printed /\ Abort("syntax_panic")
    /\ UNCHANGED <<argv, opts, sent, res, mime, text, stages, fn_in, fn_out>>

Next ==
    \/ ParseOpts \/ BuildClientOk \/ BuildClientErr
    \/ Get \/ Post \/ Put \/ Patch
    \/ SendErr \/ SendOk
    \/ PrintStatus \/ PrintHeaders \/ ParseMime
    \/ ReadBodyOk \/ ReadBodyErr \/ PrintBody

Spec == Init /\ [][Next]_vars

\* The process exit code of each way a run ends.
ExitCode(e) ==
    CASE e \in {"ok", "info"} -> 0
      [] e = "usage" -> 2
      [] e \in {"client_error", "request_error", "body_error"} -> 1
      [] e \in {"mime_panic", "syntax_panic"} -> 101

(***************************************************************************)
(* Function specifications: the input is drawn in Init, one action calls   *)
(* the function on it.                                                     *)
(***************************************************************************)
PipeIdle ==
    /\ pc = "idle" /\ argv = None /\ opts = None /\ sent = <<>> /\ res = None
    /\ mime = NotYet /\ text = None /\ stdout = <<>> /\ exit = "running"
    /\ stages = <<>>

InitKv == PipeIdle /\ fn_in \in KvTokens /\ fn_out = None

CallParseKvPair ==
    /\ pc = "idle" /\ fn_out = None
    /\ fn_out' = parse_kv_pair(fn_in)
    /\ UNCHANGED <<pipeVars, fn_in>>

NextKv == CallParseKvPair

SpecKv == InitKv /\ [][NextKv]_vars

InitUrl == PipeIdle /\ fn_in \in UrlTokens /\ fn_out = None

CallParseUrl ==
    /\ pc = "idle" /\ fn_out = None
    /\ fn_out' = parse_url(fn_in)
    /\ UNCHANGED <<pipeVars, fn_in>>

NextUrl == CallParseUrl

SpecUrl == InitUrl /\ [][NextUrl]_vars

(***************************************************************************)
(* Claims about the validators                                             *)
(***************************************************************************)
HasEq(s) == \E i \in 1..Len(s) : s[i] = "="

\* C1: parse_kv_pair(s) fails if and only if s contains no '=' character
\* (the empty token included); every token with an '=' is accepted.
C1_FailsIffNoEq ==
    fn_out # None => (fn_out.ok <=> HasEq(fn_in))

C1_Witness ==
    /\ fn_out # None
    /\ \/ fn_in = <<>> /\ ~fn_out.ok
       \/ fn_in = <<"a">> /\ ~fn_out.ok
       \/ fn_in = <<"a", "=", "1", "=">> /\ fn_out.ok

\* The text of s before its first '=', and the text between the first '='
\* and the second '=' (or the end of s), located by position.
FirstEq(s) == CHOOSE i \in 1..Len(s) : s[i] = "=" /\ \A j \in 1..(i - 1) : s[j] # "="

SecondEqOrEnd(s) ==
    LET after == {i \in (FirstEq(s) + 1)..Len(s) : s[i] = "="} IN
    IF after = {} THEN Len(s) + 1
    ELSE CHOOSE i \in after : \A j \in after : i <= j

\* C2: for every accepted token the key is the text before the first '='
\* and the value is the text between the first '=' and the second '=' (or
\* the end); nothing from the second '=' onward is in the result.
C2_FirstTwoSegments ==
    (fn_out # None /\ fn_out.ok) =>
        /\ fn_out.val.key = SubSeq(fn_in, 1, FirstEq(fn_in) - 1)
        /\ fn_out.val.value = SubSeq(fn_in, FirstEq(fn_in) + 1, SecondEqOrEnd(fn_in) - 1)

C2_Witness ==
    /\ fn_in = <<"a", "=", "1", "=">>
    /\ fn_out = Ok(KvPair(<<"a">>, <<"1">>))

\* C4: parse_url(s) either fails or returns exactly s; it fails exactly
\* when Url::parse rejects s.
C4_UrlUnchanged ==
    fn_out # None =>
        /\ fn_out.ok => fn_out.val = fn_in
        /\ fn_out.ok <=> UrlParse(fn_in).ok

\* An accepted input whose parsed Url serializes differently from the input.
C4_Witness ==
    /\ fn_in = <<"W", "s", ":", "/", "/", "W">>
    /\ fn_out = Ok(fn_in)
    /\ UrlParse(fn_in) = Ok(<<"w", "s", ":", "/", "/", "w", "/">>)

(***************************************************************************)
(* Claims about a run                                                      *)
(***************************************************************************)
Last(s) == s[Len(s)]

TextBeforeFirstEq(s) == SubSeq(s, 1, FirstEq(s) - 1)

SentBodyKeys == UNION {DOMAIN sent[i].body.json : i \in {j \in 1..Len(sent) : sent[j].body # None}}

LastValueOf(pairs, k) ==
    LET at == {i \in 1..Len(pairs) : pairs[i].key = k}
        last == CHOOSE i \in at : \A j \in at : j <= i
    IN  pairs[last].value

\* C5: the body sent by post, put and patch maps exactly the keys of the pair
\* list, each to the value of the last pair with that key; an empty list
\* gives an empty mapping.
C5_LastWriteWins ==
    \A n \in 1..Len(sent) :
        sent[n].method \in {"POST", "PUT", "PATCH"} =>
            LET m == sent[n].body.json IN
            /\ DOMAIN m = {opts.body[i].key : i \in 1..Len(opts.body)}
            /\ \A k \in DOMAIN m : m[k] = LastValueOf(opts.body, k)
            /\ opts.body = <<>> => DOMAIN m = {}

C5_Witness ==
    /\ Len(sent) = 1 /\ sent[1].method = "POST"
    /\ opts.body = <<KvPair(<<"a">>, <<"1">>), KvPair(<<"a">>, <<>>)>>
    /\ DOMAIN sent[1].body.json = {<<"a">>}
    /\ sent[1].body.json[<<"a">>] = <<>>

MethodOf(subcmd) ==
    CASE subcmd = "get" -> "GET" [] subcmd = "post" -> "POST"
      [] subcmd = "put" -> "PUT" [] subcmd = "patch" -> "PATCH"

RequestsWellFormed ==
    /\ Len(sent) <= 1
    /\ opts = None => sent = <<>>
    /\ \A n \in 1..Len(sent) :
          /\ sent[n].method = MethodOf(opts.subcmd)
          /\ sent[n].url = opts.url
          /\ (sent[n].method = "GET") => sent[n].body = None
          /\ (sent[n].method # "GET") => sent[n].body # None

\* C6 as stated: at most one request is ever issued, none when validation
\* fails, exactly one by the end of a run whose arguments all validate; the
\* method matches the subcommand and a get carries no body.
C6_ExactlyOneWhenValid ==
    /\ RequestsWellFormed
    /\ (pc = "done" /\ opts # None) => Len(sent) = 1

\* C6 (amended): as stated, with exactly one request issued when the
\* arguments validate and the client is constructed.
C6_ExactlyOneWhenValidAndClientBuilt ==
    /\ RequestsWellFormed
    /\ (opts # None /\ pc \notin {"parsed", "client"} /\ exit # "client_error")
          => Len(sent) = 1
    /\ exit = "client_error" => sent = <<>>

C6_Witness ==
    /\ pc = "done" /\ exit = "ok" /\ argv.subcmd = "put"
    /\ Len(argv.args) = 3
    /\ sent = <<Request("PUT", argv.args[1], [json |-> BuildBody(EmptyMap, opts.body)])>>

IsStatusItem(x) == x.item \in {"[status]", "status_line"}

IsHeadersItem(x) == x.item \in {"[headers]", "header"}

IsBodyItem(x) == x.item \in {"[body]", "raw", "highlighted"}

BlockRank(x) ==
    IF IsStatusItem(x) THEN 1 ELSE IF IsHeadersItem(x) THEN 2
    ELSE IF IsBodyItem(x) THEN 3 ELSE 0

ClaimedBodyItem(r, body) ==
    LET v == HeaderGet(r.headers, "content-type")
        highlighted(syntax) == [item |-> "highlighted", syntax |-> syntax, text |-> body]
    IN  IF v = None THEN [item |-> "raw", text |-> body]
        ELSE IF v.some = Json THEN highlighted("JSON")
        ELSE IF v.some \in { <<"text", "/", "html">>,
                             <<"text", "/", "html", ";", " ", "charset", "=", "utf-8">> }
             THEN highlighted("HTML")
        ELSE IF v.some \in { <<"text", "/", "css">>,
                             <<"text", "/", "css", ";", " ", "charset", "=", "utf-8">> }
             THEN highlighted("CSS")
        ELSE IF v.some = <<"application", "/", "javascript">> THEN highlighted("JavaScript")
        ELSE [item |-> "raw", text |-> body]

\* C8: the body rendering is a function of the Content-Type value alone:
\* application/json is highlighted as json, text/html (with or without
\* charset=utf-8) as html, text/css (likewise) as css, application/javascript
\* as javascript, and an absent or any other Content-Type prints the raw
\* body text; so every run that received a response and did not fail to
\* read its body ends with that rendering as its last output.
C8_StrategyByContentType ==
    (pc = "done" /\ res # None /\ exit # "body_error") =>
        /\ text # None
        /\ Last(stdout) = ClaimedBodyItem(res, text.some)

StatusAndHeaders == StatusBlock(res) \o HeadersBlock(res)

BodyPart == SubSeq(stdout, Len(StatusAndHeaders) + 1, Len(stdout))

FullyRendered ==
    /\ res # None /\ text # None
    /\ IsPrefix(StatusAndHeaders, stdout)
    /\ Len(BodyPart) = 2
    /\ BodyPart[1] = [item |-> "[body]"]
    /\ BodyPart[2].item \in {"raw", "highlighted"}
    /\ BodyPart[2].text = text.some

InfoPrinted == exit = "info" /\ stdout = <<[item |-> argv.subcmd]>> /\ sent = <<>>

PipelineOrder ==
    /\ IsPrefix(stages, <<"validate", "dispatch", "render">>)
    /\ "dispatch" \in Range(stages) => opts # None /\ Len(sent) = 1
    /\ "render" \in Range(stages) => res # None
    /\ Len(sent) <= 1
    /\ (exit # "running") <=> (pc = "done")
    /\ exit = "usage" => stages = <<"validate">> /\ opts = None /\ stdout = <<>>
    /\ exit = "request_error" =>
          stages = <<"validate", "dispatch">> /\ res = None /\ stdout = <<>>
    /\ exit \in {"mime_panic", "body_error", "syntax_panic"} =>
          stages = <<"validate", "dispatch", "render">> /\ ~FullyRendered

\* C9 as stated: the stages run in the order validate, dispatch, render, each
\* only after the earlier ones succeeded; a failure ends the run at its
\* stage with a non-zero exit, no retry and no later stage; and the exit
\* code is 0 exactly when the request was sent and the response fully
\* rendered.
C9_ExitZeroIffRendered ==
    /\ PipelineOrder
    /\ exit # "running" =>
          ((ExitCode(exit) = 0) <=> (Len(sent) = 1 /\ FullyRendered))

\* C9 (amended): as stated, except that the exit code is 0 exactly when the
\* request was sent and the response fully rendered, or when argument
\* parsing ended by printing the help or version text.
C9_ExitZeroIffRenderedOrInfo ==
    /\ PipelineOrder
    /\ exit # "running" =>
          ((ExitCode(exit) = 0) <=> ((Len(sent) = 1 /\ FullyRendered) \/ InfoPrinted))

C9_Witness ==
    /\ exit = "body_error" /\ pc = "done"
    /\ stages = <<"validate", "dispatch", "render">>
    /\ stdout = StatusAndHeaders
    /\ ExitCode(exit) = 1

OutputIsPrefixOfBlocks ==
    IF res = None THEN stdout = <<>>
    ELSE \/ IsPrefix(stdout, StatusAndHeaders)
         \/ /\ IsPrefix(StatusAndHeaders, stdout)
            /\ text # None
            /\ Len(BodyPart) <= 2
            /\ BodyPart[1] = [item |-> "[body]"]
            /\ Len(BodyPart) = 2 =>
                  /\ BodyPart[2].item \in {"raw", "highlighted"}
                  /\ BodyPart[2].text = text.some

MimeResolvedBetween ==
    /\ mime # NotYet => res # None /\ IsPrefix(StatusAndHeaders, stdout)
    /\ text # None => mime # NotYet
    /\ exit \in {"mime_panic", "body_error"} =>
          res # None /\ stdout = StatusAndHeaders /\ text = None

\* C10 as stated: the Content-Type is resolved after the status and headers
\* blocks are printed and before the body is read; when it does not parse as
\* a media type, or the body read fails, the run ends with exactly the status
\* and headers blocks printed; and the standard output of any run is a
\* prefix of status block, headers block, body block.
C10_OutputPrefixAnyRun ==
    /\ MimeResolvedBetween
    /\ OutputIsPrefixOfBlocks

\* C10 (amended): as stated, for the standard output of any run that does
\* not end by printing the help or version text.
C10_OutputPrefixUnlessInfo ==
    /\ MimeResolvedBetween
    /\ exit # "info" => OutputIsPrefixOfBlocks

C10_Witness ==
    /\ exit = "mime_panic"
    /\ HeaderGet(res.headers, "content-type") = [some |-> <<"garbage">>]
    /\ stdout = StatusAndHeaders
    /\ text = None

====
